---- MODULE Spec2Model ----
(***************************************************************************)
(* Snalpytics backend: the extraction pipeline (_build_messages,           *)
(* format_data_with_deepseek, _parse_model_json) and the routes /process,  *)
(* /get_user_data and /get_user_data_by_email, in the two variants         *)
(* src/api/index.py ("index") and src/main.py ("main").                    *)
(*                                                                         *)
(* Text is a sequence of tokens.  Every character that JSON, str.strip or  *)
(* the bracket scan looks at is a token of its own: { } [ ] " \ , : -      *)
(* the backtick (written Backtick, the lexer takes none inside a string),   *)
(* space, newline and the digits.  A run of other characters may be one    *)
(* token (a word such as "rows" or "Thanks!"); a word never contains one   *)
(* of the characters above.  The literals null, true and false are words.  *)
(* Python and JSON values are records [t |-> tag, v |-> payload].          *)
(***************************************************************************)
EXTENDS Integers, Sequences, FiniteSets, TLC

VARIABLES variant, call, api_key, collection, now, posts, resp

vars == <<variant, call, api_key, collection, now, posts, resp>>

Variants == {"index", "main"}

----------------------------------------------------------------------------
(* Values *)

Str(s) == [t |-> "str", v |-> s]
Num(d) == [t |-> "num", v |-> d]
Null == [t |-> "null", v |-> <<>>]
Bool(w) == [t |-> "bool", v |-> <<w>>]
List(xs) == [t |-> "list", v |-> xs]
Dict(ps) == [t |-> "dict", v |-> ps]
Pair(key, val) == [k |-> key, val |-> val]

Whitespace == {" ", "\n"}
Backtick == "BACKTICK"
Digits == {"0", "1", "2", "3", "4", "5", "6", "7", "8", "9"}
DigitSeq == <<"0", "1", "2", "3", "4", "5", "6", "7", "8", "9">>

\* Python truth value of an object: None, False, 0 and empty containers are falsy
Truthy(x) ==
    CASE x.t = "null" -> FALSE
      [] x.t = "bool" -> x.v = <<"true">>
      [] x.t = "num" -> x.v # <<"0">>
      [] OTHER -> Len(x.v) > 0

\* isinstance(x, dict)
IsDict(x) == x.t = "dict"

\* isinstance(x, list)
IsList(x) == x.t = "list"

\* dict.get(key): the value under key, None when the key is absent
DictGet(d, key) ==
    LET hits == {i \in 1..Len(d.v) : d.v[i].k = key}
    IN IF hits = {} THEN Null ELSE d.v[CHOOSE i \in hits : TRUE].val

\* d[key] = val on an insertion-ordered dict: a present key keeps its place
DictSet(ps, key, val) ==
    IF \E i \in 1..Len(ps) : ps[i].k = key
    THEN [i \in 1..Len(ps) |-> IF ps[i].k = key THEN Pair(key, val) ELSE ps[i]]
    ELSE Append(ps, Pair(key, val))

\* {name: val for name in names}
RECURSIVE DictFromKeys(_, _, _)
DictFromKeys(names, val, acc) ==
    IF names = <<>> THEN acc
    ELSE DictFromKeys(Tail(names), val, DictSet(acc, Head(names).v, val))

\* str.strip(chars): drop the leading and trailing tokens that are in cs
StrStrip(s, cs) ==
    LET keep == {i \in 1..Len(s) : s[i] \notin cs}
    IN IF keep = {} THEN <<>>
       ELSE SubSeq(s, CHOOSE i \in keep : \A j \in keep : i <= j,
                      CHOOSE i \in keep : \A j \in keep : j <= i)

\* str(n) of a non-negative int
RECURSIVE IntToStr(_)
IntToStr(n) ==
    IF n < 10 THEN <<DigitSeq[n + 1]>>
    ELSE Append(IntToStr(n \div 10), DigitSeq[(n % 10) + 1])

----------------------------------------------------------------------------
(* json.dumps with the default separators *)

\* the concatenation of ps[lo..hi], by halves
RECURSIVE Flatten(_, _, _)
Flatten(ps, lo, hi) ==
    IF lo > hi THEN <<>>
    ELSE IF lo = hi THEN ps[lo]
    ELSE LET mid == (lo + hi) \div 2
         IN Flatten(ps, lo, mid) \o Flatten(ps, mid + 1, hi)

\* splicing the character into the JSON text as it is
EscapeCharRaw(c) == <<c>>

\* the escape json.dumps writes for one character of a string
EscapeChar(c) ==
    CASE c = "\"" -> <<"\\", "\"">>
      [] c = "\\" -> <<"\\", "\\">>
      [] c = "\n" -> <<"\\", "n">>
      [] OTHER -> <<c>>

Escape(s) == Flatten([i \in 1..Len(s) |-> EscapeChar(s[i])], 1, Len(s))

RECURSIVE Dumps(_), DumpItems(_), DumpPairs(_)
Dumps(x) ==
    CASE x.t = "str" -> <<"\"">> \o Escape(x.v) \o <<"\"">>
      [] x.t = "num" -> x.v
      [] x.t = "bool" -> x.v
      [] x.t = "null" -> <<"null">>
      [] x.t = "list" -> <<"[">> \o DumpItems(x.v) \o <<"]">>
      [] x.t = "dict" -> <<"{">> \o DumpPairs(x.v) \o <<"}">>

DumpItems(xs) ==
    IF xs = <<>> THEN <<>>
    ELSE IF Len(xs) = 1 THEN Dumps(xs[1])
    ELSE Dumps(xs[1]) \o <<",", " ">> \o DumpItems(Tail(xs))

DumpPairs(ps) ==
    IF ps = <<>> THEN <<>>
    ELSE LET one == <<"\"">> \o Escape(ps[1].k) \o <<"\"", ":", " ">> \o Dumps(ps[1].val)
         IN IF Len(ps) = 1 THEN one ELSE one \o <<",", " ">> \o DumpPairs(Tail(ps))

----------------------------------------------------------------------------
(* json.loads: a recursive-descent parse whose result is                   *)
(* [ok, val, pos]; ok = FALSE stands for json.JSONDecodeError.             *)

Fail == [ok |-> FALSE, val |-> Null, pos |-> 0]
Ok(x, p) == [ok |-> TRUE, val |-> x, pos |-> p]

RECURSIVE SkipWs(_, _)
SkipWs(s, i) == IF i <= Len(s) /\ s[i] \in Whitespace THEN SkipWs(s, i + 1) ELSE i

\* the number of backslashes that end right before position p, from lo on
RECURSIVE BackRun(_, _, _)
BackRun(s, lo, p) ==
    IF p - 1 >= lo /\ s[p - 1] = "\\" THEN 1 + BackRun(s, lo, p - 1) ELSE 0

\* position p of a string body that starts at lo follows an escaping backslash
Escaped(s, lo, p) == BackRun(s, lo, p) % 2 = 1

\* the string body s[i..c-1] before its closing quote at c: \" \\ and \n are
\* the escapes the alphabet can spell, a raw newline is a control character
StringBody(s, i, c) ==
    IF \E p \in i..(c - 1) : IF Escaped(s, i, p) THEN s[p] \notin {"\"", "\\", "n"}
                                                  ELSE s[p] = "\n"
    THEN Fail
    ELSE Ok(Str(Flatten([q \in 1..(c - i) |->
                            IF Escaped(s, i, i + q - 1)
                            THEN (IF s[i + q - 1] = "n" THEN <<"\n">> ELSE <<s[i + q - 1]>>)
                            ELSE IF s[i + q - 1] = "\\" THEN <<>>
                            ELSE <<s[i + q - 1]>>], 1, c - i)), c + 1)

\* the string ends at the first of the quotes that are not escaped
StringUpTo(s, i, quotes) ==
    IF quotes = {} THEN Fail
    ELSE StringBody(s, i, CHOOSE j \in quotes : \A k \in quotes : j <= k)

\* a string, from the token after the opening quote
ScanString(s, i) ==
    StringUpTo(s, i, {j \in i..Len(s) : s[j] = "\"" /\ ~Escaped(s, i, j)})

\* the digits of an integer literal after its first digit
RECURSIVE ScanDigits(_, _, _)
ScanDigits(s, i, acc) ==
    IF i <= Len(s) /\ s[i] \in Digits THEN ScanDigits(s, i + 1, Append(acc, s[i]))
    ELSE Ok(Num(acc), i)

\* the integer whose first digit is expected at j
ScanInteger(s, j, sign) ==
    IF j > Len(s) \/ s[j] \notin Digits THEN Fail
    ELSE IF s[j] = "0" THEN Ok(Num(sign \o <<"0">>), j + 1)
    ELSE ScanDigits(s, j + 1, sign \o <<s[j]>>)

\* -?(0|[1-9][0-9]*); the alphabet has no '.', 'e' or 'E'
ScanNumber(s, i) ==
    IF s[i] = "-" THEN ScanInteger(s, i + 1, <<"-">>) ELSE ScanInteger(s, i, <<>>)

RECURSIVE ParseValue(_, _), ParseElements(_, _, _), ParseMembers(_, _, _)

\* after '{' and whitespace
ObjectAt(s, j) ==
    IF j <= Len(s) /\ s[j] = "}" THEN Ok(Dict(<<>>), j + 1) ELSE ParseMembers(s, j, <<>>)

\* after '[' and whitespace
ArrayAt(s, j) ==
    IF j <= Len(s) /\ s[j] = "]" THEN Ok(List(<<>>), j + 1) ELSE ParseElements(s, j, <<>>)

\* the value that starts at i, whitespace skipped
ValueAt(s, i) ==
    IF i > Len(s) THEN Fail
    ELSE IF s[i] = "{" THEN ObjectAt(s, SkipWs(s, i + 1))
    ELSE IF s[i] = "[" THEN ArrayAt(s, SkipWs(s, i + 1))
    ELSE IF s[i] = "\"" THEN ScanString(s, i + 1)
    ELSE IF s[i] = "-" \/ s[i] \in Digits THEN ScanNumber(s, i)
    ELSE IF s[i] = "null" THEN Ok(Null, i + 1)
    ELSE IF s[i] \in {"true", "false"} THEN Ok(Bool(s[i]), i + 1)
    ELSE Fail

ParseValue(s, i) == ValueAt(s, SkipWs(s, i))

\* after an element: ',' and the next element, or ']'
ElementsNext(s, xs, j) ==
    IF j > Len(s) THEN Fail
    ELSE IF s[j] = "," THEN ParseElements(s, j + 1, xs)
    ELSE IF s[j] = "]" THEN Ok(List(xs), j + 1)
    ELSE Fail

ElementParsed(s, acc, r) ==
    IF ~r.ok THEN Fail ELSE ElementsNext(s, Append(acc, r.val), SkipWs(s, r.pos))

ParseElements(s, i, acc) == ElementParsed(s, acc, ParseValue(s, i))

\* after a member: ',' and the next member, or '}'
MembersNext(s, ps, m) ==
    IF m > Len(s) THEN Fail
    ELSE IF s[m] = "," THEN ParseMembers(s, SkipWs(s, m + 1), ps)
    ELSE IF s[m] = "}" THEN Ok(Dict(ps), m + 1)
    ELSE Fail

MemberParsed(s, acc, key, r) ==
    IF ~r.ok THEN Fail ELSE MembersNext(s, DictSet(acc, key, r.val), SkipWs(s, r.pos))

\* after a key and whitespace: ':' and the value
MemberColon(s, acc, key, j) ==
    IF j > Len(s) \/ s[j] # ":" THEN Fail
    ELSE MemberParsed(s, acc, key, ParseValue(s, j + 1))

MemberKey(s, acc, key) ==
    IF ~key.ok THEN Fail ELSE MemberColon(s, acc, key.val.v, SkipWs(s, key.pos))

ParseMembers(s, i, acc) ==
    IF i > Len(s) \/ s[i] # "\"" THEN Fail ELSE MemberKey(s, acc, ScanString(s, i + 1))

\* one value, then only whitespace
WholeText(s, r) == IF r.ok /\ SkipWs(s, r.pos) = Len(s) + 1 THEN r ELSE Fail

\* json.loads(s)
Loads(s) == WholeText(s, ParseValue(s, 1))

----------------------------------------------------------------------------
(* The pipeline *)

\* the fixed system instruction of each variant
SystemHead == "You are an expert data extractor. Output must be STRICT JSON only. No markdown, no explanations. Use exactly the requested headers as keys."

SystemPrompt(v) ==
    IF v = "index"
    THEN <<SystemHead, " ", "If missing, leave blank. Return multiple", " ", Backtick, "rows", Backtick,
           " ", "if multiple items exist.">>
    ELSE <<SystemHead>>

\* fields: a list of str; raw_content: a str
_build_messages(v, fields, raw_content) ==
    LET schema == Dict(<<Pair(<<"rows">>,
                         List(<<Dict(DictFromKeys(fields.v, Str(<<"string">>), <<>>))>>))>>)
        user_payload == Dict(<<
            Pair(<<"headers">>, fields),
            Pair(<<"text">>, raw_content),
            Pair(<<"schema">>, schema),
            Pair(<<"output_format">>,
                 Dict(<<Pair(<<"rows">>,
                        List(<<Dict(DictFromKeys(fields.v, Str(<<>>), <<>>))>>))>>))>>)
    IN << [role |-> "system", content |-> SystemPrompt(v)],
          [role |-> "user", content |-> Dumps(user_payload)] >>

\* what a function call gives back: a value, or an exception with its str()
Return(x) == [raised |-> FALSE, exc |-> <<>>, val |-> x]
Raise(msg) == [raised |-> TRUE, exc |-> msg, val |-> Null]

NoStrip == <<"object has no attribute 'strip'">>

\* the two shapes _parse_model_json accepts; anything else falls to 'return []'
RowsOf(payload) ==
    IF IsDict(payload) /\ IsList(DictGet(payload, <<"rows">>))
    THEN DictGet(payload, <<"rows">>)
    ELSE IF IsList(payload) THEN payload
    ELSE List(<<>>)

\* the decoded payload without the try/except: a decode error reaches the caller
RowsOrRaise(payload) ==
    IF payload.ok THEN Return(RowsOf(payload.val)) ELSE Raise(<<"Expecting value">>)

parse_model_json_unguarded(v, text) ==
    IF text.t # "str" THEN Raise(NoStrip)
    ELSE IF v = "index"
    THEN RowsOrRaise(Loads(StrStrip(StrStrip(text.v, {Backtick}), Whitespace)))
    ELSE RowsOrRaise(Loads(StrStrip(StrStrip(text.v, Whitespace), {Backtick})))

\* try: payload = json.loads(cleaned) ... except Exception: return []
RowsOrEmpty(payload) ==
    IF payload.ok THEN Return(RowsOf(payload.val)) ELSE Return(List(<<>>))

\* text: whatever the response held under content, a str when the endpoint
\* keeps its contract
_parse_model_json(v, text) ==
    IF v = "index"
    THEN \* the whole body is inside try/except
         IF text.t # "str" THEN Return(List(<<>>))
         ELSE RowsOrEmpty(Loads(StrStrip(StrStrip(text.v, {Backtick}), Whitespace)))
    ELSE IF ~Truthy(text) THEN Return(List(<<>>))
         ELSE IF text.t # "str" THEN Raise(NoStrip)
         ELSE RowsOrEmpty(Loads(StrStrip(StrStrip(text.v, Whitespace), {Backtick})))

\* x[key] for a str key
GetItem(x, key) ==
    CASE x.t = "dict" -> IF \E i \in 1..Len(x.v) : x.v[i].k = key
                           THEN Return(DictGet(x, key))
                           ELSE Raise(<<"'">> \o key \o <<"'">>)
      [] x.t \in {"list", "str"} -> Raise(<<"indices must be integers">>)
      [] OTHER -> Raise(<<"object is not subscriptable">>)

\* x[0]
GetFirst(x) ==
    CASE x.t = "list" -> IF Len(x.v) > 0 THEN Return(x.v[1])
                           ELSE Raise(<<"list index out of range">>)
      [] x.t = "str" -> IF Len(x.v) > 0 THEN Return(Str(<<x.v[1]>>))
                          ELSE Raise(<<"string index out of range">>)
      [] x.t = "dict" -> Raise(<<"0">>)
      [] OTHER -> Raise(<<"object is not subscriptable">>)

\* data["choices"][0]["message"]["content"], step by step
ContentOfMessage(c) == IF c.raised THEN c ELSE GetItem(c.val, <<"content">>)
MessageOfChoice(b) == IF b.raised THEN b ELSE ContentOfMessage(GetItem(b.val, <<"message">>))
FirstChoice(a) == IF a.raised THEN a ELSE MessageOfChoice(GetFirst(a.val))
ContentOf(data) == FirstChoice(GetItem(data, <<"choices">>))

ErrorPrefix == <<"Error:", " ">>
ErrorFormatting == <<"Error formatting data:", " ">>

\* the adapter without its try/except, and without the status in the message
UncaughtRows(rows, content) ==
    IF rows.raised THEN rows ELSE Return(<<rows.val, content>>)

UncaughtContent(v, content) ==
    IF content.raised THEN content
    ELSE UncaughtRows(_parse_model_json(v, content.val), content.val)

UncaughtData(v, data) ==
    IF ~data.ok THEN Raise(<<"Expecting value">>) ELSE UncaughtContent(v, ContentOf(data.val))

format_data_uncaught(v, fields, raw_content, key, net) ==
    IF "exc" \in DOMAIN net THEN Raise(net.exc)
    ELSE IF net.status_code = 200 THEN UncaughtData(v, Loads(net.text))
    ELSE Return(<<List(<<>>), Str(ErrorPrefix \o net.text)>>)

\* except Exception as e: return [], f"Error formatting data: {str(e)}"
Caught(msg) == Return(<<List(<<>>), Str(ErrorFormatting \o msg)>>)

\* rows = _parse_model_json(content); return rows, content
RowsAndContent(rows, content) ==
    IF rows.raised THEN Caught(rows.exc) ELSE Return(<<rows.val, content>>)

\* content = data["choices"][0]["message"]["content"]
WithContent(v, content) ==
    IF content.raised THEN Caught(content.exc)
    ELSE RowsAndContent(_parse_model_json(v, content.val), content.val)

\* data = r.json()
WithData(v, data) ==
    IF ~data.ok THEN Caught(<<"Expecting value">>) ELSE WithContent(v, ContentOf(data.val))

\* net: what requests.post does, [exc |-> str] for a transport error or
\* timeout, [status_code |-> n, text |-> body] for a response.  The messages
\* of _build_messages go out with the request; net is the endpoint's choice.
\* The result's val is the pair <<rows, raw_text>>.
format_data_with_deepseek(v, fields, raw_content, key, net) ==
    LET messages == _build_messages(v, fields, raw_content)
    IN IF "exc" \in DOMAIN net THEN Caught(net.exc)
       ELSE IF net.status_code = 200 THEN WithData(v, Loads(net.text))
       ELSE Return(<<List(<<>>),
                     Str(ErrorPrefix \o IntToStr(net.status_code) \o <<" ", "-", " ">> \o net.text)>>)

----------------------------------------------------------------------------
(* Inputs *)

MaxRows == 2
MaxFields == 2

RowA == Dict(<<Pair(<<"name">>, Str(<<"Widget">>)), Pair(<<"price">>, Str(<<"1", "0">>))>>)
RowB == Dict(<<Pair(<<"name">>, Str(<<"Gadget">>))>>)

\* what a model may put in an array: rows, and things that are not rows
Elements == {RowA, RowB, Str(<<"not_a_row">>), Num(<<"7">>), Null, List(<<Num(<<"7">>)>>)}

RowArrays(n) == UNION {[1..k -> Elements] : k \in 0..n}

\* a row array as the prompt asks for it: mappings from name to string
WellFormed(R) ==
    \A i \in 1..Len(R) :
        IsDict(R[i]) /\ \A j \in 1..Len(R[i].v) : R[i].v[j].val.t = "str"

BodyKinds == {"rows", "bare"}

\* the JSON text of the logical content R
Body(kind, R) ==
    IF kind = "rows" THEN Dumps(Dict(<<Pair(<<"rows">>, List(R))>>)) ELSE Dumps(List(R))

\* texts with no row array in them, by kind
Degenerate ==
    { [kind |-> "empty", text |-> <<>>],
      [kind |-> "notjson", text |-> <<"not", " ", "json", " ", "at", " ", "all">>],
      [kind |-> "notjson", text |-> <<"{">>],
      [kind |-> "notjson", text |-> <<"0", "7">>],
      [kind |-> "notjson", text |-> <<"\"", "abc">>],
      [kind |-> "emptyarray", text |-> <<"[", "]">>],
      [kind |-> "scalar", text |-> <<"7">>],
      [kind |-> "scalar", text |-> <<"-", "1", "2">>],
      [kind |-> "scalar", text |-> <<"\"", "abc", "\"">>],
      [kind |-> "scalar", text |-> <<"null">>],
      [kind |-> "scalar", text |-> <<"true">>],
      [kind |-> "norows", text |-> Dumps(Dict(<<>>))],
      [kind |-> "norows", text |-> Dumps(Dict(<<Pair(<<"rows">>, Str(<<"x">>))>>))],
      [kind |-> "norows", text |-> Dumps(Dict(<<Pair(<<"rows">>, Null)>>))],
      [kind |-> "norows", text |-> Dumps(Dict(<<Pair(<<"data">>, List(<<RowA>>))>>))] }

DegenerateKinds == {d.kind : d \in Degenerate}

Wraps == {"plain", "fenced", "jsonfenced", "prose"}

Fence == <<Backtick, Backtick, Backtick>>

\* the ways a model dresses its answer
Wrap(w, text) ==
    CASE w = "plain" -> text
      [] w = "fenced" -> Fence \o <<"\n">> \o text \o <<"\n">> \o Fence
      [] w = "jsonfenced" -> Fence \o <<"json", "\n">> \o text \o <<"\n">> \o Fence
      [] w = "prose" -> <<"Sure", ",", " ", "here", " ", "it", " ", "is", ":", "\n">>
                        \o text \o <<"\n", "Thanks!">>

FieldNames == {<<"name">>, <<"price">>, <<"a", "\"", "\\">>}

FieldLists(n) ==
    {List([i \in 1..Len(f) |-> Str(f[i])]) : f \in UNION {[1..m -> FieldNames] : m \in 0..n}}

RawTexts ==
    { Str(<<>>),
      Str(<<"Widget", " ", "-", " ", "$", "1", "0">>),
      Str(<<"\"">>),
      Str(<<"say", " ", "\"", "hi", "\"", "\n", "\\", "n">>),
      Str(<<"}", "]", ",", "\"", ":", " ", "\"", "headers", "\"">>),
      Str(Fence \o <<"\n", "{", "\"", "text", "\"", ":", " ", "1", "}">>) }

\* a chat-completion response body holding content
Completion(content) ==
    Dict(<<Pair(<<"id">>, Str(<<"gen">>)),
           Pair(<<"choices">>,
                List(<<Dict(<<Pair(<<"message">>,
                              Dict(<<Pair(<<"role">>, Str(<<"assistant">>)),
                                     Pair(<<"content">>, content)>>))>>)>>))>>)

\* 200 bodies without choices[0].message.content
Shapeless ==
    { <<"Bad", " ", "Gateway">>,
      <<>>,
      Dumps(Dict(<<>>)),
      Dumps(List(<<>>)),
      Dumps(Null),
      Dumps(Str(<<"choices">>)),
      Dumps(Dict(<<Pair(<<"choices">>, List(<<>>))>>)),
      Dumps(Dict(<<Pair(<<"choices">>, Dict(<<>>))>>)),
      Dumps(Dict(<<Pair(<<"choices">>, Str(<<"x">>))>>)),
      Dumps(Dict(<<Pair(<<"choices">>, List(<<Null>>))>>)),
      Dumps(Dict(<<Pair(<<"choices">>, List(<<Dict(<<Pair(<<"message">>, Dict(<<>>))>>)>>))>>)),
      Dumps(Dict(<<Pair(<<"choices">>, List(<<Dict(<<Pair(<<"text">>, Str(<<"x">>))>>)>>))>>)) }

\* bodies an endpoint sends with an error status
ErrorBodies ==
    { <<>>,
      <<"Bad", " ", "Gateway">>,
      Dumps(Dict(<<Pair(<<"error">>, Dict(<<Pair(<<"message">>, Str(<<"Rate limited">>))>>))>>)),
      Dumps(Dict(<<Pair(<<"errors">>, List(<<Str(<<"Rate limited">>)>>))>>)),
      Dumps(List(<<Dict(<<Pair(<<"error">>, Str(<<"Rate limited">>))>>)>>)),
      Dumps(Dict(<<Pair(<<"rows">>, List(<<RowA>>))>>)),
      Dumps(Completion(Str(Body("rows", <<RowA>>)))) }

ErrorStatuses == {201, 404, 500}

\* str() of the exceptions requests.post raises
TransportErrors ==
    { <<"Read timed out.">>,
      <<"Max retries exceeded", " ", "[", "Errno", " ", "-", "2", "]", " ", "Name or service not known">> }

\* content that is not a str
OddContents == {Null, Num(<<"7">>), Num(<<"0">>), List(<<RowA>>), List(<<>>)}

----------------------------------------------------------------------------------------------------------------------------------------
(* The functions called on their own.  call holds one call: its arguments  *)
(* and what they were built from, then its result.                         *)

NoCall == [fn |-> "none"]
Pending == Return(Null)

ParseInputs ==
    { [fn |-> "parse", kind |-> kind, wrap |-> w, R |-> R, text |-> Wrap(w, Body(kind, R)),
       done |-> FALSE, out |-> Pending] :
          kind \in BodyKinds, w \in Wraps, R \in RowArrays(MaxRows) }
    \cup
    { [fn |-> "parse", kind |-> d.kind, wrap |-> w, R |-> <<>>, text |-> Wrap(w, d.text),
       done |-> FALSE, out |-> Pending] : d \in Degenerate, w \in Wraps }

BuildInputs ==
    { [fn |-> "build", fields |-> fields, raw_content |-> raw_content,
       done |-> FALSE, out |-> <<>>] :
          fields \in FieldLists(MaxFields), raw_content \in RawTexts }

FormatFields == {List(<<Str(<<"name">>), Str(<<"price">>)>>), List(<<Str(<<"name">>)>>)}
FormatRaw == Str(<<"Widget", " ", "-", " ", "$", "1", "0">>)
Key == <<"sk-or-key">>

FormatInput(case, fields, kind, w, R, content, net) ==
    [fn |-> "format", case |-> case, fields |-> fields, kind |-> kind, wrap |-> w, R |-> R,
     content |-> content, net |-> net, done |-> FALSE, out |-> Pending]

\* a 200 response whose content is a dressed row array
ContentInputs ==
    { FormatInput("content", fields, kind, w, R, Str(Wrap(w, Body(kind, R))),
                  [status_code |-> 200,
                   text |-> Dumps(Completion(Str(Wrap(w, Body(kind, R)))))]) :
          fields \in FormatFields, kind \in BodyKinds, w \in Wraps, R \in RowArrays(MaxRows) }

\* a 200 response whose content is not a str
OddInputs ==
    { FormatInput("odd", fields, "odd", "plain", <<>>, content,
                  [status_code |-> 200, text |-> Dumps(Completion(content))]) :
          fields \in FormatFields, content \in OddContents }

\* a 200 response without choices[0].message.content
ShapelessInputs ==
    { FormatInput("shape", fields, "none", "plain", <<>>, Null,
                  [status_code |-> 200, text |-> body]) :
          fields \in FormatFields, body \in Shapeless }

\* a response with another status
StatusInputs ==
    { FormatInput("status", fields, "none", "plain", <<>>, Null,
                  [status_code |-> st, text |-> body]) :
          fields \in FormatFields, st \in ErrorStatuses, body \in ErrorBodies }

\* requests.post raises
TransportInputs ==
    { FormatInput("transport", fields, "none", "plain", <<>>, Null, [exc |-> e]) :
          fields \in FormatFields, e \in TransportErrors }

ParseCall ==
    /\ call.fn = "parse" /\ ~call.done
    /\ call' = [call EXCEPT !.done = TRUE,
                            !.out = _parse_model_json(variant, Str(call.text))]
    /\ UNCHANGED <<variant, api_key, collection, now, posts, resp>>

BuildCall ==
    /\ call.fn = "build" /\ ~call.done
    /\ call' = [call EXCEPT !.done = TRUE,
                            !.out = _build_messages(variant, call.fields, call.raw_content)]
    /\ UNCHANGED <<variant, api_key, collection, now, posts, resp>>

FormatCall ==
    /\ call.fn = "format" /\ ~call.done
    /\ call' = [call EXCEPT !.done = TRUE,
                            !.out = format_data_with_deepseek(variant, call.fields, FormatRaw,
                                                              Key, call.net)]
    /\ UNCHANGED <<variant, api_key, collection, now, posts, resp>>

NoResp == [op |-> "none"]

InitCalls ==
    /\ variant \in Variants
    /\ \/ call \in ParseInputs
       \/ call \in BuildInputs
       \/ call \in ContentInputs
       \/ call \in OddInputs
       \/ call \in ShapelessInputs
       \/ call \in StatusInputs
       \/ call \in TransportInputs
    /\ api_key = TRUE
    /\ collection = [configured |-> TRUE, docs |-> <<>>]
    /\ now = 0
    /\ posts = 0
    /\ resp = NoResp

NextCalls ==
    \/ ParseCall
    \/ BuildCall
    \/ FormatCall

SpecCalls == InitCalls /\ [][NextCalls]_vars

----------------------------------------------------------------------------
(* The routes.  collection is the MongoDB handle: configured = FALSE is    *)
(* collection = None, docs the documents in insertion order.  now counts   *)
(* the timestamps taken, posts the completion calls made, resp is the      *)
(* last HTTP response.                                                     *)

MaxPosts == 2

Emails == {<<"ann@x.io">>, <<"bob@x.io">>}

\* ScrapeData payloads that pass validation: userEmail is optional
Requests ==
    { [fields |-> List(<<Str(<<"name">>), Str(<<"price">>)>>), rawContent |-> FormatRaw,
       userEmail |-> e] : e \in {Null, Str(<<>>)} \cup {Str(m) : m \in Emails} }

\* what the completion endpoint may do with one request
ServiceNets ==
    { [status_code |-> 200, text |-> Dumps(Completion(Str(Wrap("plain", Body("rows", <<RowA>>)))))],
      [status_code |-> 200, text |-> Dumps(Completion(Str(Wrap("prose", Body("rows", <<RowB>>)))))],
      [status_code |-> 500,
       text |-> Dumps(List(<<Dict(<<Pair(<<"error">>, Str(<<"Rate limited">>))>>)>>))],
      [status_code |-> 500, text |-> <<"Bad", " ", "Gateway">>],
      [exc |-> <<"Max retries exceeded", " ", "[", "Errno", " ", "-", "2", "]">>] }

\* str() of an HTTPException: "<status>: <detail>" where Starlette defines
\* __str__, the empty string where it does not
HTTPExceptionStr(status, detail) == {IntToStr(status) \o <<":", " ">> \o detail, <<>>}

MissingEmail == <<"Missing userEmail in payload">>
InsertError == <<"ServerSelectionTimeoutError">>

HTTPError(op, data, status, detail) ==
    [op |-> op, code |-> status, detail |-> detail, userEmail |-> data.userEmail]

\* the document /process inserts
Document(data, rows, raw_text, timestamp) ==
    IF variant = "index"
    THEN Dict(<<Pair(<<"userEmail">>, data.userEmail),
                Pair(<<"fields_requested">>, data.fields),
                Pair(<<"rows">>, rows),
                Pair(<<"model_raw">>, raw_text),
                Pair(<<"timestamp">>, timestamp)>>)
    ELSE Dict(<<Pair(<<"userId">>, Null),
                Pair(<<"userEmail">>, data.userEmail),
                Pair(<<"fields_requested">>, data.fields),
                Pair(<<"rows">>, rows),
                Pair(<<"model_raw">>, raw_text),
                Pair(<<"timestamp">>, timestamp)>>)

\* what /process answers once the adapter has returned
Processed(data, rows, timestamp, db_ok) ==
    IF variant = "index"
    THEN [op |-> "process", code |-> 200, detail |-> <<>>, userEmail |-> data.userEmail,
          body |-> [status |-> "success", userEmail |-> data.userEmail,
                    rows |-> rows, timestamp |-> timestamp,
                    db_status |-> IF ~collection.configured THEN <<"skipped">>
                                  ELSE IF db_ok THEN <<"saved">>
                                  ELSE <<"error:", " ">> \o InsertError]]
    ELSE IF ~db_ok
    THEN HTTPError("process", data, 500, InsertError)
    ELSE [op |-> "process", code |-> 200, detail |-> <<>>, userEmail |-> data.userEmail,
          body |-> [status |-> IF Truthy(rows) THEN "success" ELSE "no_rows",
                    user |-> [id |-> Null, email |-> data.userEmail],
                    fields_requested |-> data.fields,
                    rows |-> rows, timestamp |-> timestamp]]

\* the rest of /process after format_data_with_deepseek returned out:
\* timestamp, insert_one (db_ok: it succeeds) and the answer
StoreAndAnswer(data, out, timestamp, db_ok) ==
    /\ posts' = posts + 1
    /\ now' = now + 1
    /\ collection' = IF collection.configured /\ db_ok
                     THEN [collection EXCEPT
                             !.docs = Append(@, Document(data, out.val[1], out.val[2], timestamp))]
                     ELSE collection
    /\ resp' = Processed(data, out.val[1], timestamp, db_ok)

\* POST /process.  net is the endpoint's answer, db_ok whether insert_one succeeds
process_scrape_data ==
    \E data \in Requests :
       IF ~api_key
       THEN /\ resp' = HTTPError("process", data, 500,
                                 IF variant = "index" THEN <<"Missing OpenRouter API key">>
                                 ELSE <<"OpenRouter API key missing">>)
            /\ UNCHANGED <<variant, call, api_key, collection, now, posts>>
       ELSE IF ~Truthy(data.userEmail)
       THEN /\ IF variant = "index"
               THEN resp' = HTTPError("process", data, 401, MissingEmail)
               ELSE \* the HTTPException is raised inside the try and caught by
                    \* 'except Exception'
                    \E msg \in HTTPExceptionStr(401, MissingEmail) :
                       resp' = HTTPError("process", data, 500, msg)
            /\ UNCHANGED <<variant, call, api_key, collection, now, posts>>
       ELSE /\ posts < MaxPosts
            /\ \E net \in ServiceNets, db_ok \in BOOLEAN :
                  StoreAndAnswer(data,
                                 format_data_with_deepseek(variant, data.fields, data.rawContent,
                                                           Key, net),
                                 Str(<<"T">> \o IntToStr(now)), db_ok)
            /\ UNCHANGED <<variant, call, api_key>>

\* collection.find({key: value}, {"_id": 0}): the documents that hold value under key
Find(docs, key, value) ==
    SelectSeq(docs, LAMBDA d : (\E i \in 1..Len(d.v) : d.v[i].k = key) /\ DictGet(d, key) = value)

\* the path parameters of the two GET routes
QueryKeys == Emails \cup {<<"nobody">>}

\* GET /get_user_data/{userId}; the route exists in api/index.py only
get_user_data ==
    /\ variant = "index"
    /\ \E userId \in QueryKeys :
          resp' = IF ~collection.configured
                  THEN [op |-> "get_user_data", code |-> 200, status |-> "error",
                        key |-> userId, message |-> <<"DB not configured">>]
                  ELSE LET docs == Find(collection.docs, <<"userId">>, Str(userId))
                       IN [op |-> "get_user_data", code |-> 200,
                           status |-> IF Len(docs) > 0 THEN "success" ELSE "no_data",
                           key |-> userId, records |-> docs, count |-> Len(docs)]
    /\ UNCHANGED <<variant, call, api_key, collection, now, posts>>

StartsWith(s, pre) == Len(s) >= Len(pre) /\ SubSeq(s, 1, Len(pre)) = pre
EndsWith(s, suf) == Len(s) >= Len(suf) /\ SubSeq(s, Len(s) - Len(suf) + 1, Len(s)) = suf

\* json.loads(snippet), [] when it fails
SnippetOr(snippet) == IF snippet.ok THEN snippet.val ELSE List(<<>>)

\* the text from the first '{' or '[' to the last '}' or ']'
BracketScan(s, opens, closes) ==
    IF opens = {} \/ closes = {} THEN List(<<>>)
    ELSE IF (CHOOSE i \in closes : \A j \in closes : j <= i)
              < (CHOOSE i \in opens : \A j \in opens : i <= j)
    THEN List(<<>>)
    ELSE SnippetOr(Loads(SubSeq(s, CHOOSE i \in opens : \A j \in opens : i <= j,
                                   CHOOSE i \in closes : \A j \in closes : j <= i)))

\* try: return json.loads(s); except: the bracket scan
DirectOr(s, direct) ==
    IF direct.ok THEN direct.val
    ELSE BracketScan(s, {i \in 1..Len(s) : s[i] \in {"{", "["}},
                        {i \in 1..Len(s) : s[i] \in {"}", "]"}})

\* s without its code fence
Unfenced(s) ==
    IF StartsWith(s, Fence) /\ EndsWith(s, Fence) THEN StrStrip(s, {Backtick}) ELSE s

\* the parsed JSON of a stored model_raw, [] when there is none
_try_parse_model_raw(model_raw) ==
    IF ~Truthy(model_raw) \/ model_raw.t # "str" THEN List(<<>>)
    ELSE DirectOr(Unfenced(StrStrip(model_raw.v, Whitespace)),
                  Loads(Unfenced(StrStrip(model_raw.v, Whitespace))))

\* parsed_rows of a document whose rows are empty and whose model_raw parsed to parsed
ParsedRows(rows, parsed) ==
    IF IsDict(parsed) /\ IsList(DictGet(parsed, <<"rows">>)) THEN DictGet(parsed, <<"rows">>)
    ELSE IF IsList(parsed) THEN parsed
    ELSE rows

\* d.get("rows") or []
RowsOrList(rows) == IF Truthy(rows) THEN rows ELSE List(<<>>)

\* one element of 'normalized': the document plus parsed_rows
Normalized(d) ==
    Dict(DictSet(d.v, <<"parsed_rows">>,
                 IF ~Truthy(DictGet(d, <<"rows">>)) /\ Truthy(DictGet(d, <<"model_raw">>))
                 THEN ParsedRows(RowsOrList(DictGet(d, <<"rows">>)),
                                 _try_parse_model_raw(DictGet(d, <<"model_raw">>)))
                 ELSE RowsOrList(DictGet(d, <<"rows">>))))

\* the answer of the by-email route for the documents found
EmailAnswer(email, normalized) ==
    [op |-> "get_user_data_by_email", code |-> 200,
     status |-> IF Len(normalized) > 0 THEN "success" ELSE "no_data",
     key |-> email, records |-> normalized, count |-> Len(normalized)]

NormalizeAll(docs) == [i \in 1..Len(docs) |-> Normalized(docs[i])]

\* GET /get_user_data_by_email/{email}
get_user_data_by_email ==
    /\ \E email \in QueryKeys :
          resp' = IF variant = "index" /\ ~collection.configured
                  THEN [op |-> "get_user_data_by_email", code |-> 200, status |-> "error",
                        key |-> email, message |-> <<"DB not configured">>]
                  ELSE EmailAnswer(email,
                                   NormalizeAll(Find(collection.docs, <<"userEmail">>, Str(email))))
    /\ UNCHANGED <<variant, call, api_key, collection, now, posts>>

\* GET /health
health_check ==
    /\ resp' = [op |-> "health", code |-> 200, status |-> "healthy",
                service |-> IF variant = "index" THEN <<"Snaplytics (MongoDB Ready)">>
                            ELSE <<"Snaplytics Data Processor">>]
    /\ UNCHANGED <<variant, call, api_key, collection, now, posts>>

\* the process after import: OPENROUTER_KEY set or not; in api/index.py the
\* collection is None without MONGO_URI or pymongo
Init ==
    /\ variant \in Variants
    /\ call = NoCall
    /\ api_key \in BOOLEAN
    /\ collection \in {[configured |-> c, docs |-> <<>>] : c \in {TRUE} \cup {variant # "index"}}
    /\ now = 0
    /\ posts = 0
    /\ resp = NoResp

Next ==
    \/ process_scrape_data
    \/ get_user_data
    \/ get_user_data_by_email
    \/ health_check

Spec == Init /\ [][Next]_vars

----------------------------------------------------------------------------
(* Properties *)

\* sub occurs in s
Contains(s, sub) ==
    \E i \in 0..(Len(s) - Len(sub)) : SubSeq(s, i + 1, i + Len(sub)) = sub

StatusText == (201 :> <<"2", "0", "1">>) @@ (404 :> <<"4", "0", "4">>) @@ (500 :> <<"5", "0", "0">>)

\* C1: for a well-formed row array R the normalizer returns the same rows for
\* the clean text {"rows": R}, for the text in a backtick fence and for the
\* text inside prose.
C1_SameRowsForAllDressings ==
    (call.fn = "parse" /\ call.done /\ call.kind = "rows" /\ WellFormed(call.R)
       /\ call.wrap \in {"plain", "fenced", "prose"})
    => call.out = _parse_model_json(variant, Str(Body("rows", call.R)))

\* C2: for a text that parses to an array, or to an object with a list under
\* rows, the normalizer returns exactly the mappings of that list, in order.
C2_OnlyMappingsReturned ==
    (call.fn = "parse" /\ call.done /\ call.kind \in BodyKinds /\ call.wrap = "plain")
    => (~call.out.raised /\ call.out.val = List(SelectSeq(call.R, IsDict)))

\* C3: the normalizer never raises on a text, and returns the empty sequence
\* for the empty text, a text that is not JSON, the text [], a JSON scalar
\* and a JSON object without a list under rows.
C3_DegradesToEmpty ==
    (call.fn = "parse" /\ call.done)
    => (~call.out.raised /\ (call.kind \in DegenerateKinds => call.out.val = List(<<>>)))

C3_Witness ==
    call.fn = "parse" /\ call.done /\ call.kind = "notjson" /\ call.wrap = "plain"
      /\ call.text = <<"{">> /\ call.out = Return(List(<<>>))

\* C4: format_data_with_deepseek never raises; on a transport error, a status
\* other than 200 or a 200 body without choices[0].message.content it returns
\* no rows and a diagnostic string, which holds the status code when the
\* status is not 200.
C4_AdapterNeverRaises ==
    (call.fn = "format" /\ call.done)
    => /\ ~call.out.raised
       /\ call.case \in {"transport", "status", "shape"}
            => /\ call.out.val[1] = List(<<>>)
               /\ call.out.val[2].t = "str"
               /\ Len(call.out.val[2].v) > 0
               /\ call.case = "status"
                    => Contains(call.out.val[2].v, StatusText[call.net.status_code])

C4_Witness ==
    /\ call.fn = "format" /\ call.done /\ call.case = "status"
    /\ call.net.status_code = 500 /\ call.net.text = <<"Bad", " ", "Gateway">>
    /\ call.out = Return(<<List(<<>>),
                           Str(<<"Error:", " ", "5", "0", "0", " ", "-", " ", "Bad", " ", "Gateway">>)>>)

\* C5: a 200 answer whose content is {"rows": R} in a fence opened by
\* ```json gives the rows R and the fenced content as raw model text.
C5_JsonFenceGivesRows ==
    (call.fn = "format" /\ call.done /\ call.case = "content" /\ call.kind = "rows"
       /\ call.wrap = "jsonfenced" /\ WellFormed(call.R))
    => call.out = Return(<<List(call.R), call.content>>)

\* payload is an object with F under headers and T under text
HeadersAndText(payload, F, T) ==
    /\ IsDict(payload)
    /\ DictGet(payload, <<"headers">>) = F
    /\ DictGet(payload, <<"text">>) = T

\* C6: _build_messages returns two messages, system then user, and the user
\* content parsed as JSON has headers equal to the field list and text equal
\* to the raw text.
C6_HeadersRoundTrip ==
    (call.fn = "build" /\ call.done)
    => /\ Len(call.out) = 2
       /\ call.out[1].role = "system"
       /\ call.out[2].role = "user"
       /\ Loads(call.out[2].content).ok
       /\ HeadersAndText(Loads(call.out[2].content).val, call.fields, call.raw_content)

C6_Witness ==
    /\ call.fn = "build" /\ call.done
    /\ Len(call.fields.v) = 2 /\ call.fields.v[1] = call.fields.v[2]
    /\ call.fields.v[1] = Str(<<"a", "\"", "\\">>)
    /\ Contains(call.raw_content.v, <<"\"">>)
    /\ Loads(call.out[2].content).ok

\* C7: every row the normalizer returns for a request is a mapping in which
\* each requested field is present with a string value.
C7_RowsHoldEveryField ==
    (call.fn = "format" /\ call.done /\ ~call.out.raised)
    => \A i \in 1..Len(call.out.val[1].v) :
          LET row == call.out.val[1].v[i]
          IN /\ IsDict(row)
             /\ \A j \in 1..Len(call.fields.v) :
                   /\ \E m \in 1..Len(row.v) : row.v[m].k = call.fields.v[j].v
                   /\ DictGet(row, call.fields.v[j].v).t = "str"

\* C8: a query by opaque id or by email returns every record /process stored
\* under that identity and no other record, with count the number returned.
C8_QueriesReturnStoredRecords ==
    (resp.op \in {"get_user_data", "get_user_data_by_email"} /\ resp.status # "error")
    => LET stored == Find(collection.docs, <<"userEmail">>, Str(resp.key))
       IN /\ resp.count = Len(resp.records)
          /\ Len(resp.records) = Len(stored)
          /\ \A i \in 1..Len(stored) : \A j \in 1..Len(stored[i].v) :
                DictGet(resp.records[i], stored[i].v[j].k) = stored[i].v[j].val

\* C9: with the API key configured, a /process request without userEmail is
\* answered 401 'Missing userEmail in payload', makes no completion call and
\* stores nothing.
C9_MissingEmailIs401 ==
    [][(resp'.op = "process" /\ api_key /\ ~Truthy(resp'.userEmail))
         => (resp'.code = 401 /\ resp'.detail = MissingEmail
               /\ posts' = posts /\ collection' = collection)]_vars

\* model_raw is a diagnostic of the adapter, not text of the model
IsDiagnostic(model_raw) ==
    model_raw.t = "str"
      /\ (StartsWith(model_raw.v, ErrorPrefix) \/ StartsWith(model_raw.v, ErrorFormatting))

\* C10: a record stored after a failed completion call comes back from
\* get_user_data_by_email with parsed_rows empty.
C10_FailedCallHasNoParsedRows ==
    (resp.op = "get_user_data_by_email" /\ resp.status # "error")
    => \A i \in 1..Len(resp.records) :
          IsDiagnostic(DictGet(resp.records[i], <<"model_raw">>))
            => DictGet(resp.records[i], <<"parsed_rows">>) = List(<<>>)

====
